---- MODULE Spec2Model ----
(***************************************************************************)
(* Model of webui_llm_tools/search/serp_search.py: one call of             *)
(* WebsiteSearch.search, i.e. asyncio.run(_async_search(...)), with its    *)
(* concurrent _fetch_page tasks.                                           *)
(*                                                                         *)
(* Python values are represented as follows.                               *)
(*   Optional[x]    the empty set for None, {v} for the value v            *)
(*   str            a sequence of string tokens (<<>> is "")               *)
(*   list           a sequence                                             *)
(* The timestamp fields (extracted_at) are left out: they are read from    *)
(* the clock and no operation of the module reads them back.               *)
(***************************************************************************)
EXTENDS Integers, Sequences, FiniteSets, TLC

\* ---------------------------------------------------------------- bounds
MaxPages == 2      \* largest max_page_number tried
MaxItems == 1      \* longest results array one page returns
MaxCut   == 2      \* largest max_results tried

None == {}
Some(v) == {v}
Val(o) == CHOOSE v \in o : TRUE

Min(a, b) == IF a <= b THEN a ELSE b
Max(a, b) == IF a >= b THEN a ELSE b

\* ------------------------------------------------------ inputs of a call
Queries == {<<"rust">>, <<"go">>}
BaseUrls == {None, Some(<<>>), Some(<<"http://searx">>)}
PageCounts == (-1)..MaxPages
MaxResultsVals == {None} \cup {Some(m) : m \in 0..MaxCut}
Scores == {-1, 0, 1}

\* ------------------------------------------- what the endpoint may answer
\* One raw record of a results array, as item.get reads it: a key that is
\* absent and a key that is null both read as None.
RawItem(p, j) ==
    [url : {Some(<<"u", ToString(p), ToString(j)>>)},
     score : {None} \cup {Some(s) : s \in Scores}]
    \cup {[url |-> None, score |-> None]}

RECURSIVE RawLists(_, _)
RawLists(p, n) ==
    IF n = 0 THEN {<<>>}
    ELSE LET shorter == RawLists(p, n - 1)
         IN shorter \cup
            {Append(l, it) : l \in {s \in shorter : Len(s) = n - 1},
                             it \in RawItem(p, n)}

FetchErrors == {"timeout", "status", "decode"}

\* The answer the network gives to the request for page p.
Responses(p) ==
    [kind : {"raise"}, err : FetchErrors]
    \cup {[kind |-> "json", top |-> "array"]}
    \cup {[kind |-> "json", top |-> "object", results |-> [t |-> "absent"]]}
    \cup {[kind |-> "json", top |-> "object", results |-> [t |-> "null"]]}
    \cup {[kind |-> "json", top |-> "object",
           results |-> [t |-> "str", s |-> <<"oops">>]]}
    \cup {[kind |-> "json", top |-> "object", results |-> [t |-> "list", v |-> l]]
          : l \in RawLists(p, MaxItems)}

VARIABLES
    pc,               \* position of _async_search
    query, max_page_number, max_results, output_for_llm,   \* arguments
    base_url,         \* os.getenv("SEARXNG_BASE_URL")
    client,           \* the httpx.AsyncClient: "none", "open", "closed"
    tasks,            \* the _fetch_page coroutines handed to gather
    requests,         \* page number -> number of GET requests sent
    pages_results,    \* what gather returned
    idx,              \* position of the scan over pages_results
    all_data,         \* the WebsiteData built so far
    output,           \* what the call returned
    raised            \* the exception that ended the call, if any

vars == <<pc, query, max_page_number, max_results, output_for_llm, base_url,
          client, tasks, requests, pages_results, idx, all_data, output, raised>>

args == <<query, max_page_number, max_results, output_for_llm, base_url>>

NoOutput == [kind |-> "none"]
PageNumbers == (-1)..(MaxPages + 1)

Init ==
    /\ pc = "init"
    /\ query \in Queries
    /\ max_page_number \in PageCounts
    /\ max_results \in MaxResultsVals
    /\ output_for_llm \in BOOLEAN
    /\ base_url \in BaseUrls
    /\ client = "none"
    /\ tasks = <<>>
    /\ requests = [p \in PageNumbers |-> 0]
    /\ pages_results = <<>>
    /\ idx = 0
    /\ all_data = <<>>
    /\ output = NoOutput
    /\ raised = None


\* ------------------------------------------------------------ _fetch_page
\* f"Page {page} failed: {e}"
PageFailed(page, e) == <<"Page ", ToString(page), " failed: ", e>>

StrOutcome(text) == [t |-> "str", v |-> text]
ListOutcome(items) == [t |-> "list", v |-> items]
Pending == [t |-> "pending"]

\* The value _fetch_page returns for the answer resp: any exception of the
\* try block (client.get, raise_for_status, response.json, page_json.get on
\* a body that is no mapping) becomes the message string; otherwise the
\* value of page_json.get("results", []) is returned as it is.
FetchPage(page, resp) ==
    IF resp.kind = "raise" THEN StrOutcome(PageFailed(page, resp.err))
    ELSE IF resp.top # "object" THEN StrOutcome(PageFailed(page, "attr"))
    ELSE IF resp.results.t = "absent" THEN ListOutcome(<<>>)
    ELSE IF resp.results.t = "str" THEN StrOutcome(resp.results.s)
    ELSE resp.results

\* Mutant of PageRange: range(max_page_number)
PageRangeFromZero(n) == IF n < 1 THEN <<>> ELSE [i \in 1..n |-> i - 1]

\* Mutant of PageRange: range(0, max_page_number + 1)
PageRangeZeroToN(n) == IF n < 0 THEN <<>> ELSE [i \in 1..(n + 1) |-> i - 1]

\* range(1, max_page_number + 1)
PageRange(n) == IF n < 1 THEN <<>> ELSE [i \in 1..n |-> i]

NewTask(page) == [page |-> page, state |-> "created", resp |-> Pending,
                  result |-> Pending]

\* ----------------------------------------------------------- data classes
\* WebsiteError(query=..., error=...): success defaults to False.
WebsiteError(q, e) == [kind |-> "error", query |-> q, error |-> e,
                       success |-> FALSE]

\* pydantic rejects url=None for the field url: str.
Validates(item) == item.url # None

\* WebsiteData(url=item.get("url"), ..., date=f"{item.get('date')}", ...)
WebsiteData(item) ==
    [url |-> Val(item.url), score |-> item.score, date |-> <<"None">>,
     published_date |-> <<"None">>, success |-> TRUE]

\* The records appended before the inner loop ends or raises.
RECURSIVE Normalized(_)
Normalized(items) ==
    IF items = <<>> \/ ~Validates(Head(items)) THEN <<>>
    ELSE <<WebsiteData(Head(items))>> \o Normalized(Tail(items))

AllValidate(items) == \A j \in DOMAIN items : Validates(items[j])

\* ------------------------------------------------------ rank and truncate
\* "if max_results:" is false for None and for 0.
Truthy(o) == o # None /\ Val(o) # 0

\* key=lambda d: d.score if d.score is not None else 0
SortKey(d) == IF d.score # None THEN Val(d.score) ELSE 0

\* list.sort(key=..., reverse=True) is stable: d goes behind every record
\* whose key is not smaller.
RECURSIVE InsertDesc(_, _)
InsertDesc(sorted, d) ==
    IF sorted = <<>> THEN <<d>>
    ELSE IF SortKey(Head(sorted)) >= SortKey(d)
         THEN <<Head(sorted)>> \o InsertDesc(Tail(sorted), d)
         ELSE <<d>> \o sorted

RECURSIVE SortDesc(_)
SortDesc(data) ==
    IF data = <<>> THEN <<>>
    ELSE InsertDesc(SortDesc(SubSeq(data, 1, Len(data) - 1)), data[Len(data)])

\* data[:m]
Slice(data, m) ==
    IF m >= 0 THEN SubSeq(data, 1, Min(m, Len(data)))
    ELSE SubSeq(data, 1, Max(Len(data) + m, 0))

Ranked(data, m) == IF Truthy(m) THEN Slice(SortDesc(data), Val(m)) ELSE data

\* ------------------------------------------------------------- formatting
ScoreText(o) == IF o = None THEN "null" ELSE ToString(Val(o))

\* d.model_dump_json(): one JSON object, with no raw newline in it.
ModelDumpJson(d) ==
    <<"{", "url:">> \o d.url \o <<"score:", ScoreText(d.score), "}">>

\* Mutant of JoinLines: every line is ended by a newline
RECURSIVE JoinLinesTerminated(_)
JoinLinesTerminated(lines) ==
    IF lines = <<>> THEN <<>>
    ELSE lines[1] \o <<"\n">> \o JoinLinesTerminated(Tail(lines))

\* "\n".join(lines)
RECURSIVE JoinLines(_)
JoinLines(lines) ==
    IF lines = <<>> THEN <<>>
    ELSE IF Len(lines) = 1 THEN lines[1]
    ELSE lines[1] \o <<"\n">> \o JoinLines(Tail(lines))

FormatForLlm(data) == JoinLines([i \in DOMAIN data |-> ModelDumpJson(data[i])])

StrOutput(text) == [kind |-> "str", text |-> text]
ListOutput(data) == [kind |-> "list", data |-> data]

\* ---------------------------------------------------------------- actions
\* Mutant of BaseUrlMissing: if base_url == "":
BaseUrlEmptyOnly(b) == b # None /\ Val(b) = <<>>

\* lines 94-98
BaseUrlMissing(b) == b = None \/ Val(b) = <<>>

CheckConfig ==
    /\ pc = "init"
    /\ IF BaseUrlMissing(base_url)
       THEN /\ pc' = "raised"
            /\ raised' = Some("ValueError")
       ELSE /\ pc' = "fanout"
            /\ UNCHANGED raised
    /\ UNCHANGED <<args, client, tasks, requests, pages_results, idx,
                   all_data, output>>

\* lines 100-104: the client is entered and one coroutine made per page
FanOut ==
    /\ pc = "fanout"
    /\ client' = "open"
    /\ tasks' = [i \in DOMAIN PageRange(max_page_number) |->
                   NewTask(PageRange(max_page_number)[i])]
    /\ pc' = "gather"
    /\ UNCHANGED <<args, requests, pages_results, idx, all_data, output, raised>>

\* lines 66-67: a task runs up to its await of client.get
StartFetch(i) ==
    /\ pc = "gather"
    /\ client = "open"
    /\ tasks[i].state = "created"
    /\ tasks' = [tasks EXCEPT ![i].state = "inflight"]
    /\ requests' = [requests EXCEPT ![tasks[i].page] = @ + 1]
    /\ UNCHANGED <<pc, args, client, pages_results, idx, all_data, output, raised>>

\* Mutant of Resolve: a task that fails cancels the tasks still running
ResolveCancelsSiblings(i) ==
    /\ pc = "gather"
    /\ tasks[i].state = "inflight"
    /\ \E resp \in Responses(tasks[i].page) :
         LET result == FetchPage(tasks[i].page, resp) IN
           tasks' = [j \in DOMAIN tasks |->
                       IF j = i
                       THEN [tasks[j] EXCEPT !.state = "done", !.resp = resp,
                                             !.result = result]
                       ELSE IF result.t = "str" /\ tasks[j].state # "done"
                       THEN [tasks[j] EXCEPT !.state = "done",
                                             !.result = StrOutcome(<<"cancelled">>)]
                       ELSE tasks[j]]
    /\ UNCHANGED <<pc, args, client, requests, pages_results, idx, all_data,
                   output, raised>>

\* lines 67-72: the answer arrives and the task returns
Resolve(i) ==
    /\ pc = "gather"
    /\ tasks[i].state = "inflight"
    /\ \E resp \in Responses(tasks[i].page) :
         tasks' = [tasks EXCEPT ![i].state = "done",
                                ![i].resp = resp,
                                ![i].result = FetchPage(tasks[i].page, resp)]
    /\ UNCHANGED <<pc, args, client, requests, pages_results, idx, all_data,
                   output, raised>>

\* Mutant of GatherDone: the caller resumes when the first task has returned
GatherFirstCompleted(ts) == ts = <<>> \/ \E i \in DOMAIN ts : ts[i].state = "done"

\* Mutant of GatherDone: the caller waits for a completion, and none comes
\* when there is no task
GatherDoneSomeTask(ts) ==
    ts # <<>> /\ \A i \in DOMAIN ts : ts[i].state = "done"

\* asyncio.gather(*tasks) resumes its caller when every task has returned
GatherDone(ts) == \A i \in DOMAIN ts : ts[i].state = "done"

\* Its value lists the results in the order of the tasks.
GatherResults(ts) == [i \in DOMAIN ts |-> ts[i].result]

\* Mutant of Join: the client is never closed
JoinClientLeftOpen ==
    /\ pc = "gather"
    /\ GatherDone(tasks)
    /\ pages_results' = GatherResults(tasks)
    /\ idx' = 1
    /\ pc' = "scan"
    /\ UNCHANGED <<args, client, tasks, requests, all_data, output, raised>>

\* line 105, and the exit of the "async with" block
Join ==
    /\ pc = "gather"
    /\ GatherDone(tasks)
    /\ pages_results' = GatherResults(tasks)
    /\ client' = "closed"
    /\ idx' = 1
    /\ pc' = "scan"
    /\ UNCHANGED <<args, tasks, requests, all_data, output, raised>>

\* Mutant of Failure: the two branches exchanged
FailureExchanged(q, text, llm) ==
    IF llm THEN [kind |-> "error", query |-> q, error |-> text, success |-> FALSE]
    ELSE [kind |-> "str", text |-> text]

\* lines 109-113
Failure(q, text, llm) == IF llm THEN StrOutput(text) ELSE WebsiteError(q, text)

\* Mutant of ScanPage: a page that failed is skipped
ScanPageSkipFailed ==
    /\ pc = "scan"
    /\ idx <= Len(pages_results)
    /\ LET result == pages_results[idx] IN
         IF result.t # "list"
         THEN UNCHANGED all_data
         ELSE all_data' = all_data \o Normalized(result.v)
    /\ idx' = idx + 1
    /\ UNCHANGED <<pc, args, client, tasks, requests, pages_results, output,
                   raised>>

\* Mutant of ScanPage: all results are searched for a string first, and
\* records are built only when there is none
ScanPageFailFirst ==
    /\ pc = "scan"
    /\ idx <= Len(pages_results)
    /\ IF \E k \in DOMAIN pages_results : pages_results[k].t = "str"
       THEN LET first == CHOOSE k \in DOMAIN pages_results :
                           /\ pages_results[k].t = "str"
                           /\ \A j \in 1..(k - 1) : pages_results[j].t # "str"
            IN /\ output' = Failure(query, pages_results[first].v, output_for_llm)
               /\ pc' = "failed"
               /\ UNCHANGED <<idx, all_data, raised>>
       ELSE LET result == pages_results[idx] IN
            IF result.t # "list"
            THEN /\ raised' = Some("TypeError")
                 /\ pc' = "raised"
                 /\ UNCHANGED <<idx, all_data, output>>
            ELSE IF ~AllValidate(result.v)
            THEN /\ all_data' = all_data \o Normalized(result.v)
                 /\ raised' = Some("ValidationError")
                 /\ pc' = "raised"
                 /\ UNCHANGED <<idx, output>>
            ELSE /\ all_data' = all_data \o Normalized(result.v)
                 /\ idx' = idx + 1
                 /\ UNCHANGED <<pc, output, raised>>
    /\ UNCHANGED <<args, client, tasks, requests, pages_results>>

\* lines 107-133: one turn of the loop over pages_results
ScanPage ==
    /\ pc = "scan"
    /\ idx <= Len(pages_results)
    /\ LET result == pages_results[idx] IN
         IF result.t = "str"
         THEN /\ output' = Failure(query, result.v, output_for_llm)
              /\ pc' = "failed"
              /\ UNCHANGED <<idx, all_data, raised>>
         ELSE IF result.t # "list"
         THEN /\ raised' = Some("TypeError")
              /\ pc' = "raised"
              /\ UNCHANGED <<idx, all_data, output>>
         ELSE IF ~AllValidate(result.v)
         THEN /\ all_data' = all_data \o Normalized(result.v)
              /\ raised' = Some("ValidationError")
              /\ pc' = "raised"
              /\ UNCHANGED <<idx, output>>
         ELSE /\ all_data' = all_data \o Normalized(result.v)
              /\ idx' = idx + 1
              /\ UNCHANGED <<pc, output, raised>>
    /\ UNCHANGED <<args, client, tasks, requests, pages_results>>

\* lines 135-139
Rank ==
    /\ pc = "scan"
    /\ idx > Len(pages_results)
    /\ all_data' = Ranked(all_data, max_results)
    /\ pc' = "format"
    /\ UNCHANGED <<args, client, tasks, requests, pages_results, idx, output,
                   raised>>

\* lines 141-144
Format ==
    /\ pc = "format"
    /\ output' = IF output_for_llm THEN StrOutput(FormatForLlm(all_data))
                 ELSE ListOutput(all_data)
    /\ pc' = "done"
    /\ UNCHANGED <<args, client, tasks, requests, pages_results, idx, all_data,
                   raised>>

Next ==
    \/ CheckConfig
    \/ FanOut
    \/ \E i \in DOMAIN tasks : StartFetch(i)
    \/ \E i \in DOMAIN tasks : Resolve(i)
    \/ Join
    \/ ScanPage
    \/ Rank
    \/ Format

Spec == Init /\ [][Next]_vars

\* asyncio.run drives the event loop until _async_search ends: a coroutine
\* that can run is run, and every request that was sent is answered (by a
\* response, an error or the timeout of client.get).
FairSpec == Spec /\ WF_vars(Next)

\* ------------------------------------------------- vocabulary of the claims
Returned == pc \in {"done", "failed"}
Ended == Returned \/ pc = "raised"
Configured == base_url # None /\ base_url # Some(<<>>)

\* Task i took the except branch of _fetch_page: its request met a
\* transport error, a non-2xx status, a JSON-decode error or a body that is
\* no JSON object.
Fails(i) ==
    /\ tasks[i].state = "done"
    /\ tasks[i].resp.kind = "raise" \/ tasks[i].resp.top # "object"

\* Task i returned from the try block: a 2xx answer with a JSON object.
Succeeds(i) == tasks[i].state = "done" /\ ~Fails(i)

\* The results array of the body task i received (empty when the body has
\* no array under "results").
ResultArray(i) ==
    IF tasks[i].resp.results.t = "list" THEN tasks[i].resp.results.v ELSE <<>>

RECURSIVE SumLen(_)
SumLen(n) == IF n = 0 THEN 0 ELSE SumLen(n - 1) + Len(ResultArray(n))

\* The url fields of the arrays of tasks 1..n, in page and array order.
RECURSIVE UrlsInPageOrder(_)
UrlsInPageOrder(n) ==
    IF n = 0 THEN <<>>
    ELSE UrlsInPageOrder(n - 1)
         \o [j \in DOMAIN ResultArray(n) |-> ResultArray(n)[j].url]

\* text.split("\n")
RECURSIVE SplitLines(_)
SplitLines(text) ==
    IF \A j \in DOMAIN text : text[j] # "\n" THEN <<text>>
    ELSE LET cut == CHOOSE j \in DOMAIN text :
                        /\ text[j] = "\n"
                        /\ \A h \in 1..(j - 1) : text[h] # "\n"
         IN <<SubSeq(text, 1, cut - 1)>>
            \o SplitLines(SubSeq(text, cut + 1, Len(text)))

\* ------------------------------------------------------------------ C1
\* C1: if page k fails and every page below k succeeds, the call returns a
\* failure carrying exactly page k's message, whatever the pages above k
\* did and in whatever order the fetches completed.
C1_LowestFailingPageReported ==
    Ended =>
      \A k \in DOMAIN tasks :
        (Fails(k) /\ \A j \in 1..(k - 1) : Succeeds(j)) =>
          /\ pc = "failed"
          /\ output = IF output_for_llm
                      THEN [kind |-> "str", text |-> tasks[k].result.v]
                      ELSE [kind |-> "error", query |-> query,
                            error |-> tasks[k].result.v, success |-> FALSE]

\* ------------------------------------------------------------------ C2
\* C2: for N >= 1, if all N page fetches succeed and max_results is not
\* given, the call returns as many records as the pages' result arrays hold
\* together, in page order and then array order.
C2_AllPagesMergedInPageOrder ==
    (/\ Ended
     /\ max_page_number >= 1
     /\ max_results = None
     /\ Len(tasks) = max_page_number
     /\ \A i \in DOMAIN tasks : Succeeds(i)) =>
      /\ pc = "done"
      /\ Len(all_data) = SumLen(Len(tasks))
      /\ [j \in DOMAIN all_data |-> Some(all_data[j].url)]
           = UrlsInPageOrder(Len(tasks))
      /\ output = IF output_for_llm THEN StrOutput(FormatForLlm(all_data))
                  ELSE ListOutput(all_data)

\* ------------------------------------------------------------------ C3
\* C3: the call never returns while one of its max_page_number page fetches
\* is still outstanding, also when some page has already failed.
C3_NoReturnWhileFetchOutstanding ==
    /\ Returned =>
         /\ Len(tasks) = Max(max_page_number, 0)
         /\ \A i \in DOMAIN tasks : tasks[i].state = "done"
    /\ (\E i \in DOMAIN tasks : tasks[i].state # "done") =>
         /\ output = NoOutput
         /\ pc = "gather"

\* The call has returned a failure after two fetches of which the first had
\* failed; both fetches are over.
C3_Witness ==
    /\ pc = "failed"
    /\ Len(tasks) = 2
    /\ Fails(1)
    /\ tasks[2].state = "done"

\* ------------------------------------------------------------------ C4
\* The merge of the pages before it is ranked (all pages scanned).
RECURSIVE Merged(_)
Merged(n) ==
    IF n = 0 THEN <<>> ELSE Merged(n - 1) \o Normalized(pages_results[n].v)

\* p comes before q in the sequence data (both occur once).
Before(data, p, q) ==
    \E a, b \in DOMAIN data : a < b /\ data[a] = p /\ data[b] = q

\* C4: given max_results = M and a successful merge of S records, the call
\* returns exactly min(M, S) records, sorted by descending score, records of
\* equal score in their (page, in-page) order.
C4_TopMinMSSortedStable ==
    (pc = "done" /\ max_results # None) =>
      LET merged == Merged(Len(pages_results)) IN
        /\ Len(all_data) = Min(Val(max_results), Len(merged))
        /\ \A a, b \in DOMAIN all_data :
             a < b =>
               /\ SortKey(all_data[a]) >= SortKey(all_data[b])
               /\ SortKey(all_data[a]) = SortKey(all_data[b])
                    => Before(merged, all_data[a], all_data[b])

\* ------------------------------------------------------------------ C5
\* The output is the failure made of the string one page's fetch returned.
IsOneFailure ==
    \E i \in DOMAIN tasks :
      /\ tasks[i].result.t = "str"
      /\ output = IF output_for_llm
                  THEN [kind |-> "str", text |-> tasks[i].result.v]
                  ELSE [kind |-> "error", query |-> query,
                        error |-> tasks[i].result.v, success |-> FALSE]

\* The output is a sequence of WebsiteData (or its rendering for the LLM).
IsRecordsOnly ==
    IF output_for_llm
    THEN /\ output.kind = "str"
         /\ output.text = FormatForLlm(all_data)
    ELSE /\ output.kind = "list"
         /\ \A j \in DOMAIN output.data :
              /\ DOMAIN output.data[j]
                   = {"url", "score", "date", "published_date", "success"}
              /\ output.data[j].success

\* C5: what the call returns is either a sequence made only of WebsiteData
\* or exactly one failure; when a page failed it is the failure, and no
\* record of a page that succeeded is returned.
C5_RecordsOrOneFailureNeverMixed ==
    Returned =>
      /\ pc = "done" => IsRecordsOnly /\ \A i \in DOMAIN tasks : ~Fails(i)
      /\ pc = "failed" => IsOneFailure
      /\ (\E i \in DOMAIN tasks : Fails(i)) => pc = "failed"

\* A failure was returned although a page had delivered a record.
C5_Witness ==
    /\ pc = "failed"
    /\ IsOneFailure
    /\ \E i \in DOMAIN tasks : Succeeds(i) /\ Len(ResultArray(i)) > 0
    /\ \E i \in DOMAIN tasks : Fails(i)

\* ------------------------------------------------------------------ C6
\* C6: with the base URL missing from the configuration the call fails at
\* once with a configuration error: no task is made, no request is sent.
C6_MissingBaseUrlNoRequest ==
    base_url = None =>
      /\ pc \in {"init", "raised"}
      /\ pc = "raised" => raised = Some("ValueError")
      /\ \A p \in PageNumbers : requests[p] = 0
      /\ tasks = <<>>
      /\ client = "none"
      /\ output = NoOutput

\* The call asked for pages and ended with the configuration error.
C6_Witness ==
    /\ base_url = None
    /\ max_page_number >= 1
    /\ pc = "raised"
    /\ raised = Some("ValueError")

\* ------------------------------------------------------------------ C7
\* C7: with the configuration present no page-level problem makes the call
\* raise: it ends by returning records or one failure.
C7_PageProblemsNeverRaise ==
    Configured => (pc # "raised" /\ raised = None)

\* ------------------------------------------------------------------ C8
\* C8 as stated: with output_for_llm the returned string split on newline
\* has as many lines as there are records, zero included, each the
\* serialization of the record at its place.
C8_OneLinePerRecordZeroIncluded ==
    (pc = "done" /\ output_for_llm) =>
      /\ output.kind = "str"
      /\ SplitLines(output.text)
           = [j \in DOMAIN all_data |-> ModelDumpJson(all_data[j])]

\* C8 amended: with output_for_llm and at least one record the returned
\* string split on newline has exactly one line per record, each the
\* serialization of the record at its place; with no record the string is
\* empty, and splitting it gives one empty line.
C8_OneLinePerRecord ==
    (pc = "done" /\ output_for_llm) =>
      /\ output.kind = "str"
      /\ IF all_data = <<>>
         THEN output.text = <<>> /\ SplitLines(output.text) = << <<>> >>
         ELSE SplitLines(output.text)
                = [j \in DOMAIN all_data |-> ModelDumpJson(all_data[j])]

\* Two records of two pages were rendered for the LLM.
C8_Witness ==
    /\ pc = "done"
    /\ output_for_llm
    /\ Len(all_data) = 2
    /\ Len(SplitLines(output.text)) = 2

\* ------------------------------------------------------------------ C9
\* The lowest position of pages_results that holds a string.
FirstStr == CHOOSE k \in DOMAIN pages_results :
              /\ pages_results[k].t = "str"
              /\ \A j \in 1..(k - 1) : pages_results[j].t # "str"

\* C9: on the failure path the shape of the output depends on
\* output_for_llm alone: without it a WebsiteError with the query of the
\* call, the failing page's message and success false; with it that message
\* as a plain string.
C9_FailureShapeByOutputForLlm ==
    pc = "failed" =>
      LET message == pages_results[FirstStr].v IN
        /\ Fails(FirstStr) =>
             message = <<"Page ", ToString(FirstStr), " failed: ",
                         IF tasks[FirstStr].resp.kind = "raise"
                         THEN tasks[FirstStr].resp.err ELSE "attr">>
        /\ ~output_for_llm =>
             output = [kind |-> "error", query |-> query, error |-> message,
                       success |-> FALSE]
        /\ output_for_llm => output = [kind |-> "str", text |-> message]

\* A failed fetch was reported as a WebsiteError.
C9_Witness ==
    /\ pc = "failed"
    /\ ~output_for_llm
    /\ Fails(FirstStr)
    /\ output.kind = "error"

\* ----------------------------------------------------------------- C10
\* C10: a call with max_page_number = N sends exactly one request for each
\* page 1..N and no other: none twice, none again after a failure.
C10_OneRequestPerPage ==
    /\ \A p \in PageNumbers :
         /\ requests[p] <= 1
         /\ requests[p] = 1 => (1 <= p /\ p <= max_page_number)
    /\ (Configured /\ pc \notin {"init", "fanout", "gather"}) =>
         \A p \in 1..max_page_number : requests[p] = 1

\* Both pages were requested once, one failed, and the call has returned.
C10_Witness ==
    /\ pc = "failed"
    /\ max_page_number = 2
    /\ requests[1] = 1 /\ requests[2] = 1
    /\ \E i \in DOMAIN tasks : Fails(i)

\* ----------------------------------------------------------------- C11
\* C11: the failure of one page never cancels a sibling: every fetch that
\* was dispatched stays in flight, with the call waiting for it, until its
\* own answer resolves it, also after another page has failed; what it
\* returned is then left out of the failure the call returns.
C11_NoSiblingCancelled ==
    /\ \A i \in DOMAIN tasks :
         /\ tasks[i].state = "inflight" =>
              /\ pc = "gather"
              /\ output = NoOutput
              /\ tasks[i].resp = Pending
         /\ tasks[i].state = "done" =>
              /\ requests[tasks[i].page] = 1
              /\ "kind" \in DOMAIN tasks[i].resp
              /\ tasks[i].result = FetchPage(tasks[i].page, tasks[i].resp)
         /\ pc \notin {"init", "fanout", "gather"} => tasks[i].state = "done"
    /\ pc = "failed" =>
         \/ output = [kind |-> "str", text |-> pages_results[FirstStr].v]
         \/ output = [kind |-> "error", query |-> query,
                      error |-> pages_results[FirstStr].v, success |-> FALSE]

\* Page 1 failed, page 2 was answered with a record all the same, and the
\* call returned page 1's failure.
C11_Witness ==
    /\ pc = "failed"
    /\ Len(tasks) = 2
    /\ Fails(1)
    /\ FirstStr = 1
    /\ Succeeds(2)
    /\ Len(ResultArray(2)) = 1

\* ----------------------------------------------------------------- C12
\* The positions of _async_search as states of the per-call machine:
\* "init" and "fanout" are INIT, "gather" is FETCHING, "scan" is the loop
\* that finds the failure and merges (MERGING), the step from "scan" to
\* "format" is RANKING, the step from "format" to "done" is FORMATTING.
MachineSteps ==
    {<<"init", "fanout">>, <<"init", "raised">>, <<"fanout", "gather">>,
     <<"gather", "scan">>, <<"scan", "failed">>, <<"scan", "raised">>,
     <<"scan", "format">>, <<"format", "done">>}

\* C12 as stated, for the calls that end FAILED: no record of any page has
\* been normalized when the failure is returned.
C12_FailedWithoutMerging ==
    (pc = "failed" /\ tasks[FirstStr].resp.kind = "raise") => all_data = <<>>

\* C12 amended: the call moves along INIT -> FETCHING -> scan, and the scan
\* merges while it looks for the failure.  At FAILED exactly the records of
\* the pages below the first failing one have been normalized, and nothing
\* was ranked or formatted; a call with a failed page never reaches RANKING,
\* FORMATTING or DONE; at RANKING every page has been merged, and DONE
\* follows FORMATTING follows RANKING.
C12_StateMachine ==
    /\ [](pc = "failed" =>
            /\ idx = FirstStr
            /\ all_data = Merged(FirstStr - 1))
    /\ []((\E i \in DOMAIN tasks : Fails(i)) => pc \notin {"format", "done"})
    /\ [](pc \in {"format", "done"} =>
            /\ \A k \in DOMAIN pages_results : pages_results[k].t = "list"
            /\ idx = Len(pages_results) + 1
            /\ all_data = Ranked(Merged(Len(pages_results)), max_results))
    /\ [][pc' # pc => <<pc, pc'>> \in MachineSteps]_vars

\* The call failed on page 2 after the record of page 1 had been normalized.
C12_Witness ==
    /\ pc = "failed"
    /\ FirstStr = 2
    /\ Fails(2)
    /\ Len(all_data) = 1
    /\ output # NoOutput

\* ----------------------------------------------------------------- C13
\* C13 as stated, in the form a finite run refutes: the call ends in DONE or
\* FAILED, never in another way.
C13_EndsDoneOrFailed ==
    pc # "raised"

\* The steps the call can still take, at most.
StepsLeft ==
    LET width == 2 * Max(max_page_number, 0) + 2
        rank == CASE pc = "init" -> 5
                  [] pc = "fanout" -> 4
                  [] pc = "gather" -> 3
                  [] pc = "scan" -> 2
                  [] pc = "format" -> 1
                  [] OTHER -> 0
        fetching == Cardinality({i \in DOMAIN tasks : tasks[i].state = "created"})
                    + Cardinality({i \in DOMAIN tasks : tasks[i].state # "done"})
        scanning == IF pc = "scan" THEN Len(pages_results) + 1 - idx ELSE 0
    IN rank * width + fetching + scanning

\* C13 amended: when every request that was sent gets its answer, the call
\* ends (DONE, FAILED, or an exception), and once all its fetches have
\* resolved it does not stay waiting.  Stated as safety: a call that has
\* not ended either waits for the answer to a request in flight or can take
\* a step of its own, when all fetches have resolved that step is the return
\* of gather, and every step lowers the natural number StepsLeft; under the
\* fairness of FairSpec the call therefore ends.
C13_CallTerminates ==
    /\ [](/\ pc = "init" => ENABLED CheckConfig
          /\ pc = "fanout" => ENABLED FanOut
          /\ pc = "gather" =>
               \/ \E i \in DOMAIN tasks : tasks[i].state = "inflight"
               \/ \E i \in DOMAIN tasks : ENABLED StartFetch(i)
               \/ ENABLED Join
          /\ (pc = "gather" /\ \A i \in DOMAIN tasks : tasks[i].state = "done")
               => ENABLED Join
          /\ pc = "scan" => idx \in 1..(Len(pages_results) + 1)
          /\ pc = "format" => ENABLED Format
          /\ StepsLeft >= 0
          /\ Ended <=> StepsLeft = 0)
    /\ [][StepsLeft' < StepsLeft]_vars

\* The call has ended after waiting for two fetches.
C13_Witness ==
    /\ Ended
    /\ Len(tasks) = 2
    /\ \A i \in DOMAIN tasks : tasks[i].state = "done"
    /\ client = "closed"

\* ----------------------------------------------------------------- C14
\* C14: when max_results is given, a record with no score is ranked as a
\* record with score 0: behind every record with a positive score, ahead of
\* every record with a negative score, and in its (page, in-page) order
\* among the records whose score is 0 or missing.
C14_NoScoreRankedAsZero ==
    (pc = "done" /\ max_results # None) =>
      LET merged == Merged(Len(pages_results)) IN
        \A a, b \in DOMAIN all_data :
          (a # b /\ all_data[a].score = None) =>
            /\ (all_data[b].score # None /\ Val(all_data[b].score) > 0) => b < a
            /\ (all_data[b].score # None /\ Val(all_data[b].score) < 0) => a < b
            /\ (all_data[b].score = None \/ all_data[b].score = Some(0)) =>
                 (a < b <=> Before(merged, all_data[a], all_data[b]))

\* ----------------------------------------------------------------- C15
\* C15 as written: the fetch of page p yields a failure message exactly
\* when its request met a transport error, a non-2xx status or a
\* JSON-decode error, the message names page p, and every other fetch
\* yields the results array of the body (empty when the field is absent).
C15_FailureExactlyOnRequestError ==
    \A i \in DOMAIN tasks :
      tasks[i].state = "done" =>
        IF tasks[i].resp.kind = "raise"
        THEN /\ tasks[i].result.t = "str"
             /\ tasks[i].result.v[2] = ToString(tasks[i].page)
        ELSE tasks[i].result.t = "list"

\* ----------------------------------------------------------------- C16
\* C16: the call returns a failure only if the fetch of the page it reports
\* failed; a 2xx answer with a JSON object never becomes the failure of the
\* whole query, whatever its results field holds.
C16_OnlyFailedFetchReported == pc = "failed" => Fails(FirstStr)

\* ----------------------------------------------------------------- C17
\* C17: the client is open while any fetch is in flight; it is closed only
\* when every fetch has returned; it is closed before the first record is
\* built and when the call returns, with records or with a failure.
C17_ClientOpenWhileFetching ==
    /\ \A i \in DOMAIN tasks : tasks[i].state = "inflight" => client = "open"
    /\ client = "closed" =>
         /\ Len(tasks) = Len(PageRange(max_page_number))
         /\ \A i \in DOMAIN tasks : tasks[i].state = "done"
    /\ client = "none" => tasks = <<>> /\ pc \in {"init", "fanout", "raised"}
    /\ pc \in {"scan", "format"} => client = "closed"
    /\ all_data # <<>> => client = "closed"
    /\ Returned => client = "closed"
    /\ (pc = "raised" /\ raised # Some("ValueError")) => client = "closed"

C17_Witness ==
    /\ pc = "failed" /\ client = "closed" /\ Len(tasks) = 2
    /\ Succeeds(1) /\ Len(all_data) = 1 /\ Fails(2)

\* ----------------------------------------------------------------- C18
\* C18: with the base url configured and max_page_number <= 0 the call sends
\* no request, never returns a failure and never raises, and returns the
\* empty list, or the empty string when output_for_llm is true.
C18_NoPagesEmptyResult ==
    (Configured /\ max_page_number <= 0) =>
      /\ \A p \in PageNumbers : requests[p] = 0
      /\ tasks = <<>>
      /\ pc \notin {"failed", "raised"}
      /\ pc = "done" =>
           output = IF output_for_llm
                    THEN [kind |-> "str", text |-> <<>>]
                    ELSE [kind |-> "list", data |-> <<>>]

C18_Witness ==
    /\ Configured /\ max_page_number <= 0 /\ pc = "done"
    /\ output_for_llm /\ output = [kind |-> "str", text |-> <<>>]
    /\ max_results = Some(1)

====
